---- MODULE Spec2Model ----
(***************************************************************************)
(* Verification model of HectorMRC/ithaca:                                 *)
(*   - alvidir  : the schema Insert transaction with before/after triggers *)
(*   - plotline : the LiFoConstraintChain and the in-memory experience     *)
(*                repository with its transactional aggregate.             *)
(***************************************************************************)
EXTENDS Integers, Sequences, FiniteSets, TLC

VARIABLES
    \* alvidir: the schema's graph, its RwLock and the Insert transactions
    graph, gLock, tx,
    \* plotline: the constraint chain under evaluation and its last call
    chain, clast,
    \* plotline: the experiences map, the stored records and their locks, the
    \* readers of the map's lock, the entity and event repositories, the
    \* calling threads, and per identifier the last call that succeeded
    experiences, store, rlock, mapReaders, sib, th, lastOk,
    \* the locks a panic under their exclusive guard has left poisoned
    poisoned

insVars == <<graph, gLock, tx>>
chainVars == <<chain, clast>>
repoVars == <<experiences, store, rlock, mapReaders, sib, th, lastOk>>
vars == <<insVars, chainVars, repoVars, poisoned>>
\* what the Insert transaction leaves alone (no operation poisons a lock:
\* only a panic does)
notIns == <<chainVars, repoVars, poisoned>>
\* what the constraint chain leaves alone
notChain == <<insVars, repoVars, poisoned>>
\* what the repositories leave alone
notRepo == <<insVars, chainVars, poisoned>>

(***************************************************************************)
(* Bounds                                                                  *)
(***************************************************************************)
\* longest trigger chain attached to one side of an Insert
MaxChain == 2
\* most constraints chained into one LiFoConstraintChain
MaxMembers == 3
\* the longest sequence of context units a chain is fed before its result
MaxFed == 2
\* slots for experience resources alive at once
MaxRes == 3

(***************************************************************************)
(* alvidir/src/schema/insert.rs                                            *)
(***************************************************************************)
\* transactions (threads calling Insert::execute on the one schema)
InsTxs == {1, 2}
\* identifiers a node can carry
NodeIds == {1, 2}
\* a node: its identifier and a revision mark set by a mutating trigger
Nodes == [id : NodeIds, rev : {0, 1}]
\* candidates handed to Insert::new
NewNodes == [id : NodeIds, rev : {0}]

\* commands usable as before-triggers (Command<NodeToInsert>)
BTriggers == {"bOk", "bFailA", "bFailB", "bRekey"}
\* commands usable as after-triggers (Command<InsertedNode>)
ATriggers == {"aOk", "aFailA", "aFailB"}

\* whether a command returns Err; its error is identified with its name
Fails(c) == c \in {"bFailA", "bFailB", "aFailA", "aFailB"}

\* effect of a before-trigger on the candidate held in the RefCell
BeforeEffect(c, n) ==
    IF c = "bRekey" THEN [id |-> (n.id % Cardinality(NodeIds)) + 1, rev |-> 1]
    ELSE n

\* NoopCommand: the base case of a chain
NoopCommand == <<>>
\* LiFoChain { head, value }
LiFoChain(head, value) == Append(head, value)
ChainValue(c) == c[Len(c)]
ChainHead(c) == SubSeq(c, 1, Len(c) - 1)

\* Graph::insert: the node is stored under its own identifier
GraphInsert(g, n) ==
    [k \in (DOMAIN g) \cup {n.id} |-> IF k = n.id THEN n ELSE g[k]]

EmptyGraph == [k \in {} |-> [id |-> 1, rev |-> 0]]

NoTx == [pc |-> "none", node |-> [id |-> 1, rev |-> 0],
         before |-> NoopCommand, after |-> NoopCommand,
         attB |-> <<>>, attA |-> <<>>,
         cell |-> [id |-> 1, rev |-> 0], run |-> <<>>,
         logB |-> <<>>, logA |-> <<>>,
         pre |-> EmptyGraph, post |-> EmptyGraph,
         id |-> 0, res |-> "None"]

\* Insert::new(node)
InsertNew(t, n) ==
    /\ tx[t].pc \in {"none", "done"}
    /\ tx' = [tx EXCEPT ![t] = [NoTx EXCEPT !.pc = "built", !.node = n]]
    /\ UNCHANGED <<graph, gLock, notIns>>

\* variant: the new command becomes the head of the chain (first-in first-out)
WrapperBeforeFifo(t, c) ==
    /\ tx[t].pc = "built"
    /\ Len(tx[t].before) < MaxChain
    /\ tx' = [tx EXCEPT ![t].before = <<c>> \o tx[t].before,
                        ![t].attB = Append(tx[t].attB, c)]
    /\ UNCHANGED <<graph, gLock, notIns>>

\* Wrapper<Insert>::before(command)
WrapperBefore(t, c) ==
    /\ tx[t].pc = "built"
    /\ Len(tx[t].before) < MaxChain
    /\ tx' = [tx EXCEPT ![t].before = LiFoChain(tx[t].before, c),
                        ![t].attB = Append(tx[t].attB, c)]
    /\ UNCHANGED <<graph, gLock, notIns>>

\* Wrapper<Insert>::after(command)
WrapperAfter(t, c) ==
    /\ tx[t].pc = "built"
    /\ Len(tx[t].after) < MaxChain
    /\ tx' = [tx EXCEPT ![t].after = LiFoChain(tx[t].after, c),
                        ![t].attA = Append(tx[t].attA, c)]
    /\ UNCHANGED <<graph, gLock, notIns>>

\* commands usable as after-triggers that take the lock of the graph through
\* InsertedNode.schema: in shared mode, in exclusive mode
LockingTriggers == {"aRead", "aWrite"}
\* the transactions whose after-trigger holds the graph's lock in shared mode
GraphReaders == {t \in InsTxs : tx[t].pc = "afterR"}

\* variant: execute enters without waiting for the graph's lock
ExecLockNoWait(t) ==
    /\ tx[t].pc = "built"
    /\ gLock' = t
    /\ tx' = [tx EXCEPT ![t].pc = "before", ![t].cell = tx[t].node,
                        ![t].run = tx[t].before, ![t].pre = graph]
    /\ UNCHANGED <<graph, notIns>>

\* Insert::execute, schema.graph.write(): blocks until the lock is free
ExecLock(t) ==
    /\ tx[t].pc = "built"
    /\ gLock = 0
    /\ GraphReaders = {}
    /\ gLock' = t
    /\ tx' = [tx EXCEPT ![t].pc = "before", ![t].cell = tx[t].node,
                        ![t].run = tx[t].before, ![t].pre = graph]
    /\ UNCHANGED <<graph, notIns>>

\* a panic under the graph's write guard (in a trigger or in the insert):
\* the guard is dropped while unwinding, which poisons the lock; the graph
\* keeps what was last written
ExecPanic(t) ==
    /\ tx[t].pc = "before"
    /\ gLock' = 0
    /\ poisoned' = [poisoned EXCEPT !.graph = TRUE]
    /\ tx' = [tx EXCEPT ![t].pc = "done", ![t].res = "Panicked",
                        ![t].post = graph]
    /\ UNCHANGED <<graph, chainVars, repoVars>>

\* variant: the candidate is inserted although the before-trigger failed
ExecBeforeNoAbort(t) ==
    /\ tx[t].pc = "before"
    /\ tx[t].run # NoopCommand
    /\ LET c == ChainValue(tx[t].run) IN
       IF Fails(c)
       THEN /\ graph' = GraphInsert(graph, tx[t].cell)
            /\ tx' = [tx EXCEPT ![t].pc = "done", ![t].res = c,
                                ![t].logB = Append(tx[t].logB, c),
                                ![t].post = graph']
            /\ gLock' = 0
       ELSE /\ tx' = [tx EXCEPT ![t].cell = BeforeEffect(c, tx[t].cell),
                                ![t].run = ChainHead(tx[t].run),
                                ![t].logB = Append(tx[t].logB, c)]
            /\ UNCHANGED <<gLock, graph>>
    /\ UNCHANGED notIns

\* Insert::execute, self.before.execute(&payload)?: one command of the chain
ExecBefore(t) ==
    /\ tx[t].pc = "before"
    /\ tx[t].run # NoopCommand
    /\ LET c == ChainValue(tx[t].run) IN
       IF Fails(c)
       THEN /\ tx' = [tx EXCEPT ![t].pc = "done", ![t].res = c,
                                ![t].logB = Append(tx[t].logB, c),
                                ![t].post = graph]
            /\ gLock' = 0
       ELSE /\ tx' = [tx EXCEPT ![t].cell = BeforeEffect(c, tx[t].cell),
                                ![t].run = ChainHead(tx[t].run),
                                ![t].logB = Append(tx[t].logB, c)]
            /\ UNCHANGED gLock
    /\ UNCHANGED <<graph, notIns>>

\* variant: the candidate as given to Insert::new is stored, not the RefCell's
ExecInsertOriginal(t) ==
    /\ tx[t].pc = "before"
    /\ tx[t].run = NoopCommand
    /\ graph' = GraphInsert(graph, tx[t].node)
    /\ tx' = [tx EXCEPT ![t].pc = "after", ![t].id = tx[t].node.id,
                        ![t].run = tx[t].after, ![t].post = graph']
    /\ gLock' = 0
    /\ UNCHANGED notIns

\* variant: the identifier is captured from the candidate as given to
\* Insert::new, before the before-triggers ran
ExecInsertEarlyId(t) ==
    /\ tx[t].pc = "before"
    /\ tx[t].run = NoopCommand
    /\ LET final_node == tx[t].cell IN
       /\ graph' = GraphInsert(graph, final_node)
       /\ tx' = [tx EXCEPT ![t].pc = "after", ![t].id = tx[t].node.id,
                           ![t].run = tx[t].after, ![t].post = graph']
    /\ gLock' = 0
    /\ UNCHANGED notIns

\* variant: the write guard of the graph lives until execute returns
ExecInsertKeepingLock(t) ==
    /\ tx[t].pc = "before"
    /\ tx[t].run = NoopCommand
    /\ LET final_node == tx[t].cell IN
       /\ graph' = GraphInsert(graph, final_node)
       /\ tx' = [tx EXCEPT ![t].pc = "after", ![t].id = final_node.id,
                           ![t].run = tx[t].after, ![t].post = graph']
    /\ UNCHANGED <<gLock, notIns>>

\* Insert::execute, graph.insert(final_node) and the end of the lock's scope
ExecInsert(t) ==
    /\ tx[t].pc = "before"
    /\ tx[t].run = NoopCommand
    /\ LET final_node == tx[t].cell IN
       /\ graph' = GraphInsert(graph, final_node)
       /\ tx' = [tx EXCEPT ![t].pc = "after", ![t].id = final_node.id,
                           ![t].run = tx[t].after, ![t].post = graph']
    /\ gLock' = 0
    /\ UNCHANGED notIns

\* variant: a failing after-trigger rolls the insertion back
ExecAfterRollback(t) ==
    /\ tx[t].pc = "after"
    /\ tx[t].run # NoopCommand
    /\ LET c == ChainValue(tx[t].run) IN
       IF Fails(c)
       THEN /\ tx' = [tx EXCEPT ![t].pc = "done", ![t].res = c,
                                ![t].logA = Append(tx[t].logA, c)]
            /\ graph' = tx[t].pre
       ELSE /\ tx' = [tx EXCEPT ![t].run = ChainHead(tx[t].run),
                                ![t].logA = Append(tx[t].logA, c)]
            /\ UNCHANGED graph
    /\ UNCHANGED <<gLock, notIns>>

\* Insert::execute, self.after.execute(&payload): one command of the chain
ExecAfter(t) ==
    /\ tx[t].pc = "after"
    /\ tx[t].run # NoopCommand
    /\ ChainValue(tx[t].run) \notin LockingTriggers
    /\ LET c == ChainValue(tx[t].run) IN
       IF Fails(c)
       THEN tx' = [tx EXCEPT ![t].pc = "done", ![t].res = c,
                             ![t].logA = Append(tx[t].logA, c)]
       ELSE tx' = [tx EXCEPT ![t].run = ChainHead(tx[t].run),
                             ![t].logA = Append(tx[t].logA, c)]
    /\ UNCHANGED <<graph, gLock, notIns>>

\* an after-trigger takes the lock of payload.schema's graph: read() blocks
\* while the lock is held in exclusive mode, write() while it is held at all
AfterAcquire(t) ==
    /\ tx[t].pc = "after"
    /\ tx[t].run # NoopCommand
    /\ ChainValue(tx[t].run) \in LockingTriggers
    /\ gLock = 0
    /\ IF ChainValue(tx[t].run) = "aWrite"
       THEN /\ GraphReaders = {}
            /\ gLock' = t
            /\ tx' = [tx EXCEPT ![t].pc = "afterW"]
       ELSE /\ tx' = [tx EXCEPT ![t].pc = "afterR"]
            /\ UNCHANGED gLock
    /\ UNCHANGED <<graph, notIns>>

\* that after-trigger drops its guard and returns Ok
AfterRelease(t) ==
    /\ tx[t].pc \in {"afterR", "afterW"}
    /\ gLock' = IF tx[t].pc = "afterW" THEN 0 ELSE gLock
    /\ tx' = [tx EXCEPT ![t].pc = "after",
                        ![t].run = ChainHead(tx[t].run),
                        ![t].logA = Append(tx[t].logA, ChainValue(tx[t].run))]
    /\ UNCHANGED <<graph, notIns>>

\* Insert::execute returns the result of the after chain
ExecReturn(t) ==
    /\ tx[t].pc = "after"
    /\ tx[t].run = NoopCommand
    /\ tx' = [tx EXCEPT ![t].pc = "done", ![t].res = "Ok"]
    /\ UNCHANGED <<graph, gLock, notIns>>

InsInit ==
    /\ graph = EmptyGraph
    /\ gLock = 0
    /\ tx = [t \in InsTxs |-> NoTx]

(***************************************************************************)
(* src/experience/domain/constraint/mod.rs                                 *)
(***************************************************************************)
\* context units (ExperiencedEvent) fed through `with`
Units == {1, 2}
\* a member constraint: `with` fails on unit rej (0: on none); `result` fails
\* unless unit need was fed (0: needs none); seen holds the units fed so far
Constraints == [rej : {0} \cup Units, need : {0, 1}]

\* Constraint::with of a member: Err if the unit violates it, else the member
\* having taken the unit into account
MemberWith(m, u) ==
    IF m.rej = u
    THEN [ok |-> FALSE, err |-> m.name]
    ELSE [ok |-> TRUE, val |-> [m EXCEPT !.seen = @ \cup {u}]]

\* Constraint::result of a member: its final veredict
MemberResult(m) ==
    IF m.need # 0 /\ m.need \notin m.seen
    THEN [ok |-> FALSE, err |-> m.name]
    ELSE [ok |-> TRUE]

\* Option<T>: None, Some(x)
None == <<>>
Some(x) == <<x>>
Unwrap(o) == o[1]
\* the caller's variable after the chain was moved into a call that consumed it
Moved == None

\* LiFoConstraintChain::new
LiFoConstraintChainNew(constraint) == [head |-> None, constraint |-> constraint]
\* ConstraintChain::chain
LiFoConstraintChainLink(self, constraint) ==
    [head |-> Some(self), constraint |-> constraint]

RECURSIVE Depth(_)
Depth(self) ==
    IF self.head = None THEN 1 ELSE 1 + Depth(Unwrap(self.head))

\* variant: the head (the older constraints) is fed before the newest one
RECURSIVE ChainWithHeadFirst(_, _)
ChainWithHeadFirst(self, u) ==
    LET h == IF self.head = None THEN [ok |-> TRUE, val |-> None, log |-> <<>>]
             ELSE LET r == ChainWithHeadFirst(Unwrap(self.head), u) IN
                  IF r.ok THEN [r EXCEPT !.val = Some(r.val)] ELSE r
        c == MemberWith(self.constraint, u)
    IN  IF ~h.ok THEN h
        ELSE IF ~c.ok
        THEN [ok |-> FALSE, err |-> c.err, log |-> Append(h.log, self.constraint.name)]
        ELSE [ok |-> TRUE, val |-> [head |-> h.val, constraint |-> c.val],
              log |-> Append(h.log, self.constraint.name)]

\* variant: only the newest constraint is fed, the head is kept as it was
ChainWithNewestOnly(self, u) ==
    LET c == MemberWith(self.constraint, u) IN
    IF ~c.ok
    THEN [ok |-> FALSE, err |-> c.err, log |-> <<self.constraint.name>>]
    ELSE [ok |-> TRUE, val |-> [self EXCEPT !.constraint = c.val],
          log |-> <<self.constraint.name>>]

\* LiFoConstraintChain::with; log lists the members whose `with` was invoked
RECURSIVE ChainWith(_, _)
ChainWith(self, u) ==
    LET c == MemberWith(self.constraint, u) IN
    IF ~c.ok
    THEN [ok |-> FALSE, err |-> c.err, log |-> <<self.constraint.name>>]
    ELSE IF self.head = None
    THEN [ok |-> TRUE, val |-> [head |-> None, constraint |-> c.val],
          log |-> <<self.constraint.name>>]
    ELSE LET h == ChainWith(Unwrap(self.head), u) IN
         IF ~h.ok
         THEN [ok |-> FALSE, err |-> h.err,
               log |-> <<self.constraint.name>> \o h.log]
         ELSE [ok |-> TRUE, val |-> [head |-> Some(h.val), constraint |-> c.val],
               log |-> <<self.constraint.name>> \o h.log]

\* variant: the head's veredict is collected before the newest constraint's
RECURSIVE ChainResultHeadFirst(_)
ChainResultHeadFirst(self) ==
    LET h == IF self.head = None THEN [ok |-> TRUE, log |-> <<>>]
             ELSE ChainResultHeadFirst(Unwrap(self.head))
        c == MemberResult(self.constraint)
    IN  IF ~h.ok THEN h
        ELSE IF ~c.ok
        THEN [ok |-> FALSE, err |-> c.err, log |-> Append(h.log, self.constraint.name)]
        ELSE [ok |-> TRUE, log |-> Append(h.log, self.constraint.name)]

\* LiFoConstraintChain::result; log lists the members asked for their result
RECURSIVE ChainResult(_)
ChainResult(self) ==
    LET c == MemberResult(self.constraint) IN
    IF ~c.ok
    THEN [ok |-> FALSE, err |-> c.err, log |-> <<self.constraint.name>>]
    ELSE IF self.head = None
    THEN [ok |-> TRUE, log |-> <<self.constraint.name>>]
    ELSE LET h == ChainResult(Unwrap(self.head)) IN
         IF ~h.ok
         THEN [ok |-> FALSE, err |-> h.err,
               log |-> <<self.constraint.name>> \o h.log]
         ELSE [ok |-> TRUE, log |-> <<self.constraint.name>> \o h.log]

NoCall == [op |-> "none", unit |-> 0, pre |-> Moved, ok |-> TRUE, err |-> 0,
           log |-> <<>>]

\* a member as attached: named by its rank of attachment, nothing fed yet
Member(k, name) == [name |-> name, rej |-> k.rej, need |-> k.need, seen |-> {}]

\* LiFoConstraintChain::new(constraint)
ChainNew(k) ==
    /\ chain = Moved
    /\ chain' = Some(LiFoConstraintChainNew(Member(k, 1)))
    /\ clast' = NoCall
    /\ UNCHANGED notChain

\* chain.chain(constraint)
ChainLink(k) ==
    /\ chain # Moved
    /\ Depth(Unwrap(chain)) < MaxMembers
    /\ chain' = Some(LiFoConstraintChainLink(Unwrap(chain),
                                             Member(k, Depth(Unwrap(chain)) + 1)))
    /\ clast' = NoCall
    /\ UNCHANGED notChain

\* chain = chain.with(unit)?: an Err leaves the caller without the chain
CallWith(u) ==
    /\ chain # Moved
    /\ LET r == ChainWith(Unwrap(chain), u) IN
       /\ chain' = IF r.ok THEN Some(r.val) ELSE Moved
       /\ clast' = [op |-> "with", unit |-> u, pre |-> chain, ok |-> r.ok,
                    err |-> IF r.ok THEN 0 ELSE r.err, log |-> r.log]
    /\ UNCHANGED notChain

\* chain.result(): consumes the chain
CallResult ==
    /\ chain # Moved
    /\ LET r == ChainResult(Unwrap(chain)) IN
       /\ chain' = Moved
       /\ clast' = [op |-> "result", unit |-> 0, pre |-> chain, ok |-> r.ok,
                    err |-> IF r.ok THEN 0 ELSE r.err, log |-> r.log]
    /\ UNCHANGED notChain

ChainInit ==
    /\ chain = Moved
    /\ clast = NoCall

ChainNext ==
    \/ \E k \in Constraints : ChainNew(k)
    \/ \E k \in Constraints : ChainLink(k)
    \/ \E u \in Units : CallWith(u)
    \/ CallResult

(***************************************************************************)
(* plotline/src/experience/repository.rs                                   *)
(***************************************************************************)
\* threads calling into the repositories
Threads == {1, 2, 3}
\* identifiers of experiences, entities and events
ExpIds == {1, 2}
EntIds == {1, 2, 3}
EvIds == {1, 2}
\* the sibling repositories an aggregate is composed from
Repos == {"entity", "event"}
SibIds(repo) == IF repo = "entity" THEN EntIds ELSE EvIds
\* slots for Arc<Resource<RawExperience>>; a slot nobody references is free
ResIds == 1..MaxRes

\* Entity::default().with_id(id), Event::default().with_id(id): name 0
DefaultWithId(id) == [id |-> id, name |-> 0]

\* From<&Profile> for RawProfile
RawProfileFrom(profile) ==
    [entity |-> profile.entity.id, values |-> profile.values]

\* From<&Experience> for RawExperience
RawExperienceFrom(experience) ==
    [id |-> experience.id,
     entity |-> experience.entity.id,
     event |-> experience.event.id,
     profiles |-> [i \in 1..Len(experience.profiles) |->
                      RawProfileFrom(experience.profiles[i])]]

NoRaw == [id |-> 0, entity |-> 0, event |-> 0, profiles |-> <<>>]
NoExperience ==
    [id |-> 0, entity |-> DefaultWithId(0), event |-> DefaultWithId(0),
     profiles |-> <<>>]
\* ExperienceFilter::default(): no field populated (0: None)
NoFilter == [id |-> 0, entity |-> 0, event |-> 0]

\* an RwLock: the thread holding it for writing (0: none), those holding it
\* for reading
FreeLock == [w |-> 0, r |-> {}]
CanRead(l) == l.w = 0
\* variant: a writer is admitted among readers
CanWriteAmongReaders(l) == l.w = 0
CanWrite(l) == l.w = 0 /\ l.r = {}

\* Vec::sort of the identifiers collected in a HashSet
RECURSIVE SortedSeq(_)
SortedSeq(S) ==
    IF S = {} THEN <<>>
    ELSE LET lo == CHOOSE x \in S : \A y \in S : x <= y
         IN  <<lo>> \o SortedSeq(S \ {lo})

\* the identifiers of s without repetition, in order of first occurrence
RECURSIVE Dedup(_)
Dedup(s) ==
    IF s = <<>> THEN <<>>
    ELSE LET front == Dedup(SubSeq(s, 1, Len(s) - 1))
             x == s[Len(s)]
         IN  IF \E i \in 1..Len(front) : front[i] = x THEN front
             ELSE Append(front, x)

\* variant: the identifiers are looked up in the order the record lists them
EntityIdsUnsorted(raw) ==
    Dedup([i \in 1..Len(raw.profiles) |-> raw.profiles[i].entity]
          \o <<raw.entity>>)

\* ExperienceAggregate::entities: the identifiers to resolve, in lookup order
EntityIds(raw) ==
    SortedSeq({raw.profiles[i].entity : i \in 1..Len(raw.profiles)}
              \cup {raw.entity})

\* Tx::read / Tx::write: self.entities(..) and then self.event(..)
ResolveQueue(raw) ==
    [i \in 1..Len(EntityIds(raw)) |-> <<"entity", EntityIds(raw)[i]>>]
    \o << <<"event", raw.event>> >>

\* find_or_default of ExperienceAggregate::experience
FindOrDefault(entities, entity_id) ==
    IF \E i \in 1..Len(entities) : entities[i].id = entity_id
    THEN entities[CHOOSE i \in 1..Len(entities) :
                    /\ entities[i].id = entity_id
                    /\ \A j \in 1..(i - 1) : entities[j].id # entity_id]
    ELSE DefaultWithId(entity_id)

\* variant: every profile is given the experience's own entity
ExperienceOfOwnEntity(raw, event, entities) ==
    [id |-> raw.id,
     entity |-> FindOrDefault(entities, raw.entity),
     event |-> event,
     profiles |-> [i \in 1..Len(raw.profiles) |->
                      [entity |-> FindOrDefault(entities, raw.entity),
                       values |-> raw.profiles[i].values]]]

\* ExperienceAggregate::experience
ExperienceOf(raw, event, entities) ==
    [id |-> raw.id,
     entity |-> FindOrDefault(entities, raw.entity),
     event |-> event,
     profiles |-> [i \in 1..Len(raw.profiles) |->
                      [entity |-> FindOrDefault(entities, raw.profiles[i].entity),
                       values |-> raw.profiles[i].values]]]

\* variant: a candidate is kept as soon as one populated field equals
ExperienceFilterMatchesAnyField(q, raw) ==
    \/ q.id # 0 /\ q.id = raw.id
    \/ q.entity # 0 /\ q.entity = raw.entity
    \/ q.event # 0 /\ q.event = raw.event
    \/ q = NoFilter

\* equals_or_return!: a populated field that differs rejects the candidate
ExperienceFilterMatches(q, raw) ==
    /\ q.id # 0 => q.id = raw.id
    /\ q.entity # 0 => q.entity = raw.entity
    /\ q.event # 0 => q.event = raw.event

IdleThread ==
    [pc |-> "idle", op |-> "none", id |-> 0, x |-> NoExperience, q |-> NoFilter,
     res |-> "None", h |-> 0, queue |-> <<>>, cur |-> <<>>, acq |-> <<>>,
     ents |-> <<>>, ev |-> DefaultWithId(0), data |-> NoExperience,
     fq |-> <<>>, found |-> {}, sh |-> <<>>, held |-> {}]

\* the slots some thread or the map refers to
Referenced(m, t) ==
    {m[i] : i \in DOMAIN m} \cup {t[u].h : u \in Threads}
    \cup UNION {t[u].found : u \in Threads}
\* dropping the last Arc frees the Resource
Reclaim(s, m, t) ==
    [r \in ResIds |-> IF r \in Referenced(m, t) THEN s[r] ELSE NoRaw]

MapRemove(m, id) == [k \in (DOMAIN m) \ {id} |-> m[k]]
MapInsert(m, id, r) == [k \in (DOMAIN m) \cup {id} |-> IF k = id THEN r ELSE m[k]]
EmptyMap == [k \in {} |-> 0]

RepoInit ==
    /\ experiences = EmptyMap
    /\ store = [r \in ResIds |-> NoRaw]
    /\ rlock = [r \in ResIds |-> FreeLock]
    /\ mapReaders = {}
    /\ sib = [repo \in Repos |->
                [id \in SibIds(repo) |-> [st |-> "live", name |-> 1, w |-> 0]]]
    /\ th = [t \in Threads |-> IdleThread]
    /\ lastOk = [id \in ExpIds |-> "none"]

\* whether some thread holds the Arc of the entity or event (found, or locked)
SibHeld(t, repo, id) ==
    \E u \in Threads : t[u].cur = <<repo, id>> \/ t[u].sh = <<repo, id>>
\* dropping the last Arc of a deleted entity or event frees it
SibReclaim(s, t) ==
    [repo \in Repos |-> [id \in SibIds(repo) |->
        IF s[repo][id].st = "absent" /\ ~SibHeld(t, repo, id)
        THEN [st |-> "absent", name |-> 0, w |-> 0]
        ELSE s[repo][id]]]

\* the thread's state between calls: only its Tx handle is kept
Rest(t) == [IdleThread EXCEPT !.h = th[t].h]

\* a thread calls create(experience): it waits for experiences.write(). At
\* most MaxRes resources are alive at once: the call is made only while a
\* slot is left for it
CallCreate(t, x) ==
    /\ th[t].pc = "idle"
    /\ Cardinality(ResIds \ Referenced(experiences, th))
           > Cardinality({u \in Threads : th[u].pc = "create"})
    /\ th' = [th EXCEPT ![t] = [Rest(t) EXCEPT !.pc = "create", !.op = "create",
                                             !.id = x.id, !.x = x]]
    /\ UNCHANGED <<experiences, store, rlock, mapReaders, sib, lastOk, notRepo>>

\* variant: create replaces the record stored under the identifier
DoCreateOverwrite(t) ==
    /\ th[t].pc = "create"
    /\ mapReaders = {}
    /\ IF th[t].x.id \in DOMAIN experiences
       THEN /\ store' = [store EXCEPT ![experiences[th[t].x.id]] =
                                          RawExperienceFrom(th[t].x)]
            /\ th' = [th EXCEPT ![t].pc = "returned", ![t].res = "Ok",
                                ![t].x = NoExperience]
            /\ UNCHANGED <<experiences, lastOk>>
       ELSE \E r \in ResIds :
            /\ r \notin Referenced(experiences, th)
            /\ \A o \in ResIds : o < r => o \in Referenced(experiences, th)
            /\ experiences' = MapInsert(experiences, th[t].x.id, r)
            /\ store' = [store EXCEPT ![r] = RawExperienceFrom(th[t].x)]
            /\ lastOk' = [lastOk EXCEPT ![th[t].x.id] = "create"]
            /\ th' = [th EXCEPT ![t].pc = "returned", ![t].res = "Ok",
                                ![t].x = NoExperience]
    /\ UNCHANGED <<rlock, mapReaders, sib, notRepo>>

\* InMemoryExperienceRepository::create, under the map's write lock, whose
\* PoisonError is returned through map_err(Error::from)?; a new Resource
\* takes the lowest free slot (at most MaxRes are alive at once)
DoCreate(t) ==
    /\ th[t].pc = "create"
    /\ mapReaders = {}
    /\ IF poisoned.map
       THEN /\ th' = [th EXCEPT ![t].pc = "returned", ![t].res = "Poisoned",
                                ![t].x = NoExperience]
            /\ UNCHANGED <<experiences, store, lastOk>>
       ELSE IF th[t].x.id \in DOMAIN experiences
       THEN /\ th' = [th EXCEPT ![t].pc = "returned", ![t].res = "AlreadyExists",
                                ![t].x = NoExperience]
            /\ UNCHANGED <<experiences, store, lastOk>>
       ELSE \E r \in ResIds :
            /\ r \notin Referenced(experiences, th)
            /\ \A o \in ResIds : o < r => o \in Referenced(experiences, th)
            /\ experiences' = MapInsert(experiences, th[t].x.id, r)
            /\ store' = [store EXCEPT ![r] = RawExperienceFrom(th[t].x)]
            /\ lastOk' = [lastOk EXCEPT ![th[t].x.id] = "create"]
            /\ th' = [th EXCEPT ![t].pc = "returned", ![t].res = "Ok",
                                ![t].x = NoExperience]
    /\ UNCHANGED <<rlock, mapReaders, sib, notRepo>>

\* a panic in create under the map's write guard, before the insert: the
\* guard is dropped while unwinding, which poisons the map's lock
PanicCreate(t) ==
    /\ th[t].pc = "create"
    /\ mapReaders = {}
    /\ poisoned' = [poisoned EXCEPT !.map = TRUE]
    /\ th' = [th EXCEPT ![t] = [Rest(t) EXCEPT !.pc = "returned",
                                   !.op = "create", !.res = "Panicked"]]
    /\ UNCHANGED <<experiences, store, rlock, mapReaders, sib, lastOk,
                   insVars, chainVars>>

\* a thread calls delete(id): it waits for experiences.write()
CallDelete(t, id) ==
    /\ th[t].pc = "idle"
    /\ th' = [th EXCEPT ![t] = [Rest(t) EXCEPT !.pc = "delete", !.op = "delete",
                                             !.id = id]]
    /\ UNCHANGED <<experiences, store, rlock, mapReaders, sib, lastOk, notRepo>>

\* variant: delete reports Ok and leaves the record in the map
DoDeleteKeeping(t) ==
    /\ th[t].pc = "delete"
    /\ mapReaders = {}
    /\ IF th[t].id \notin DOMAIN experiences
       THEN /\ th' = [th EXCEPT ![t].pc = "returned", ![t].res = "NotFound"]
            /\ UNCHANGED <<experiences, store, lastOk>>
       ELSE /\ th' = [th EXCEPT ![t].pc = "returned", ![t].res = "Ok"]
            /\ lastOk' = [lastOk EXCEPT ![th[t].id] = "delete"]
            /\ UNCHANGED <<experiences, store>>
    /\ UNCHANGED <<rlock, mapReaders, sib, notRepo>>

\* InMemoryExperienceRepository::delete, under the map's write lock, whose
\* PoisonError is returned through map_err(Error::from)?
DoDelete(t) ==
    /\ th[t].pc = "delete"
    /\ mapReaders = {}
    /\ IF poisoned.map
       THEN /\ th' = [th EXCEPT ![t].pc = "returned", ![t].res = "Poisoned"]
            /\ UNCHANGED <<experiences, store, lastOk>>
       ELSE IF th[t].id \notin DOMAIN experiences
       THEN /\ th' = [th EXCEPT ![t].pc = "returned", ![t].res = "NotFound"]
            /\ UNCHANGED <<experiences, store, lastOk>>
       ELSE /\ experiences' = MapRemove(experiences, th[t].id)
            /\ th' = [th EXCEPT ![t].pc = "returned", ![t].res = "Ok"]
            /\ store' = Reclaim(store, experiences', th')
            /\ lastOk' = [lastOk EXCEPT ![th[t].id] = "delete"]
    /\ UNCHANGED <<rlock, mapReaders, sib, notRepo>>

\* InMemoryExperienceRepository::find, under the map's read lock (no caller
\* holds the map's write lock across a step): the caller is left with a Tx
\* handle on the Arc of the resource, or with NotFound; the PoisonError of
\* the map's lock is returned through map_err(Error::from)?
Find(t, id) ==
    /\ th[t].pc = "idle"
    /\ IF poisoned.map
       THEN th' = [th EXCEPT ![t] = [Rest(t) EXCEPT
                       !.pc = "returned", !.op = "find", !.id = id,
                       !.res = "Poisoned"]]
       ELSE IF id \in DOMAIN experiences
       THEN th' = [th EXCEPT ![t] = [IdleThread EXCEPT !.h = experiences[id]]]
       ELSE th' = [th EXCEPT ![t] = [Rest(t) EXCEPT
                       !.pc = "returned", !.op = "find", !.id = id,
                       !.res = "NotFound"]]
    /\ store' = Reclaim(store, experiences, th')
    /\ UNCHANGED <<experiences, rlock, mapReaders, sib, lastOk, notRepo>>

\* the caller is done with what the call returned
Return(t) ==
    /\ th[t].pc = "returned"
    /\ th' = [th EXCEPT ![t] = Rest(t)]
    /\ store' = Reclaim(store, experiences, th')
    /\ UNCHANGED <<experiences, rlock, mapReaders, sib, lastOk, notRepo>>

\* the Tx handle is dropped
DropHandle(t) ==
    /\ th[t].pc = "idle"
    /\ th[t].h # 0
    /\ th' = [th EXCEPT ![t] = IdleThread]
    /\ store' = Reclaim(store, experiences, th')
    /\ UNCHANGED <<experiences, rlock, mapReaders, sib, lastOk, notRepo>>

\* variant: a miss yields nothing, the default value is left without the
\* identifier
RECURSIVE ResolveDroppingMisses(_, _, _)
ResolveDroppingMisses(s, raw, sb) ==
    IF s.queue = <<>>
    THEN [s EXCEPT !.pc = IF s.op = "read" THEN "reading" ELSE "writing",
                   !.data = ExperienceOf(raw, s.ev, s.ents)]
    ELSE LET repo == Head(s.queue)[1]
             id == Head(s.queue)[2]
         IN  IF sb[repo][id].st = "live"
             THEN [s EXCEPT !.cur = Head(s.queue)]
             ELSE ResolveDroppingMisses([s EXCEPT
                     !.queue = Tail(s.queue),
                     !.acq = Append(s.acq,
                                    [repo |-> repo, id |-> id, got |-> FALSE])],
                     raw, sb)

\* entities / event: entity_repo.find(id), event_repo.find(id) for the next
\* identifiers of the queue (the repositories' own locks are free between
\* steps). A miss gives the default value carrying the identifier; a hit
\* leaves the resource found in cur, its lock still to be taken. Once the
\* queue is empty, ExperienceAggregate::experience composes the aggregate
\* and the guard is returned.
RECURSIVE Resolve(_, _, _)
Resolve(s, raw, sb) ==
    IF s.queue = <<>>
    THEN [s EXCEPT !.pc = IF s.op = "read" THEN "reading" ELSE "writing",
                   !.data = ExperienceOf(raw, s.ev, s.ents)]
    ELSE LET repo == Head(s.queue)[1]
             id == Head(s.queue)[2]
         IN  IF sb[repo][id].st = "live"
             THEN [s EXCEPT !.cur = Head(s.queue)]
             ELSE Resolve([s EXCEPT
                     !.queue = Tail(s.queue),
                     !.acq = Append(s.acq,
                                    [repo |-> repo, id |-> id, got |-> FALSE]),
                     !.ents = IF repo = "entity"
                              THEN Append(s.ents, DefaultWithId(id))
                              ELSE s.ents,
                     !.ev = IF repo = "event" THEN DefaultWithId(id)
                            ELSE s.ev], raw, sb)

\* Tx::read, self.experience.read(): blocks while the record is being written
TxRead(t) ==
    /\ th[t].pc = "idle"
    /\ th[t].h # 0
    /\ CanRead(rlock[th[t].h])
    /\ rlock' = [rlock EXCEPT ![th[t].h].r = @ \cup {t}]
    /\ th' = [th EXCEPT ![t] =
                Resolve([th[t] EXCEPT !.pc = "resolve", !.op = "read",
                             !.queue = ResolveQueue(store[th[t].h])],
                        store[th[t].h], sib)]
    /\ UNCHANGED <<experiences, store, mapReaders, sib, lastOk, notRepo>>

\* Tx::write, self.experience.write(): blocks while the record is in use
TxWrite(t) ==
    /\ th[t].pc = "idle"
    /\ th[t].h # 0
    /\ CanWrite(rlock[th[t].h])
    /\ rlock' = [rlock EXCEPT ![th[t].h].w = t]
    /\ th' = [th EXCEPT ![t] =
                Resolve([th[t] EXCEPT !.pc = "resolve", !.op = "write",
                             !.queue = ResolveQueue(store[th[t].h])],
                        store[th[t].h], sib)]
    /\ UNCHANGED <<experiences, store, mapReaders, sib, lastOk, notRepo>>

\* variant: the resource found is read under the experience map's write lock
ResolveReadUnderMap(t) ==
    /\ th[t].pc = "resolve"
    /\ th[t].cur # <<>>
    /\ mapReaders = {}
    /\ LET repo == th[t].cur[1]
           id == th[t].cur[2]
           value == [id |-> id, name |-> sib[repo][id].name]
       IN  /\ sib[repo][id].w = 0
           /\ th' = [th EXCEPT ![t] = Resolve([th[t] EXCEPT
                   !.cur = <<>>,
                   !.queue = Tail(th[t].queue),
                   !.acq = Append(th[t].acq,
                                  [repo |-> repo, id |-> id, got |-> TRUE]),
                   !.ents = IF repo = "entity" THEN Append(th[t].ents, value)
                            ELSE th[t].ents,
                   !.ev = IF repo = "event" THEN value ELSE th[t].ev],
                 store[th[t].h], sib)]
    /\ sib' = SibReclaim(sib, th')
    /\ UNCHANGED <<experiences, store, rlock, mapReaders, lastOk, notRepo>>

\* variant: the value cloned is the one the resource was created with
ResolveReadFrozen(t) ==
    /\ th[t].pc = "resolve"
    /\ th[t].cur # <<>>
    /\ LET repo == th[t].cur[1]
           id == th[t].cur[2]
           value == [id |-> id, name |-> 1]
       IN  /\ sib[repo][id].w = 0
           /\ th' = [th EXCEPT ![t] = Resolve([th[t] EXCEPT
                   !.cur = <<>>,
                   !.queue = Tail(th[t].queue),
                   !.acq = Append(th[t].acq,
                                  [repo |-> repo, id |-> id, got |-> TRUE]),
                   !.ents = IF repo = "entity" THEN Append(th[t].ents, value)
                            ELSE th[t].ents,
                   !.ev = IF repo = "event" THEN value ELSE th[t].ev],
                 store[th[t].h], sib)]
    /\ sib' = SibReclaim(sib, th')
    /\ UNCHANGED <<experiences, store, rlock, mapReaders, lastOk, notRepo>>

\* entities / event: tx.read().clone() on the resource found: its lock is
\* taken shared (blocking while it is being written), the value cloned and
\* the lock released; then the next identifiers are looked up
ResolveRead(t) ==
    /\ th[t].pc = "resolve"
    /\ th[t].cur # <<>>
    /\ LET repo == th[t].cur[1]
           id == th[t].cur[2]
           value == [id |-> id, name |-> sib[repo][id].name]
       IN  /\ sib[repo][id].w = 0
           /\ th' = [th EXCEPT ![t] = Resolve([th[t] EXCEPT
                   !.cur = <<>>,
                   !.queue = Tail(th[t].queue),
                   !.acq = Append(th[t].acq,
                                  [repo |-> repo, id |-> id, got |-> TRUE]),
                   !.ents = IF repo = "entity" THEN Append(th[t].ents, value)
                            ELSE th[t].ents,
                   !.ev = IF repo = "event" THEN value ELSE th[t].ev],
                 store[th[t].h], sib)]
    /\ sib' = SibReclaim(sib, th')
    /\ UNCHANGED <<experiences, store, rlock, mapReaders, lastOk, notRepo>>

\* entities / event, step by step: tx.read() on the resource found takes
\* its lock shared, blocking while it is being written
ResolveAcquire(t) ==
    /\ th[t].pc = "resolve"
    /\ th[t].cur # <<>>
    /\ th[t].cur \notin th[t].held
    /\ sib[th[t].cur[1]][th[t].cur[2]].w = 0
    /\ th' = [th EXCEPT ![t].held = @ \cup {th[t].cur}]
    /\ UNCHANGED <<experiences, store, rlock, mapReaders, sib, lastOk, notRepo>>

\* variant: the read guards of the entities and of the event are kept until
\* the guard of the aggregate is dropped
ResolveCloneKeepingGuard(t) ==
    /\ th[t].pc = "resolve"
    /\ th[t].cur # <<>>
    /\ th[t].cur \in th[t].held
    /\ LET repo == th[t].cur[1]
           id == th[t].cur[2]
           value == [id |-> id, name |-> sib[repo][id].name]
       IN  th' = [th EXCEPT ![t] = Resolve([th[t] EXCEPT
                   !.cur = <<>>,
                   !.queue = Tail(th[t].queue),
                   !.acq = Append(th[t].acq,
                                  [repo |-> repo, id |-> id, got |-> TRUE]),
                   !.ents = IF repo = "entity" THEN Append(th[t].ents, value)
                            ELSE th[t].ents,
                   !.ev = IF repo = "event" THEN value ELSE th[t].ev],
                 store[th[t].h], sib)]
    /\ sib' = SibReclaim(sib, th')
    /\ UNCHANGED <<experiences, store, rlock, mapReaders, lastOk, notRepo>>

\* entities / event, step by step: .clone() through the read guard, which is
\* dropped with the Tx at the end of the closure; then the next identifiers
\* are looked up
ResolveClone(t) ==
    /\ th[t].pc = "resolve"
    /\ th[t].cur # <<>>
    /\ th[t].cur \in th[t].held
    /\ LET repo == th[t].cur[1]
           id == th[t].cur[2]
           value == [id |-> id, name |-> sib[repo][id].name]
       IN  th' = [th EXCEPT ![t] = Resolve([th[t] EXCEPT
                   !.cur = <<>>,
                   !.held = @ \ {th[t].cur},
                   !.queue = Tail(th[t].queue),
                   !.acq = Append(th[t].acq,
                                  [repo |-> repo, id |-> id, got |-> TRUE]),
                   !.ents = IF repo = "entity" THEN Append(th[t].ents, value)
                            ELSE th[t].ents,
                   !.ev = IF repo = "event" THEN value ELSE th[t].ev],
                 store[th[t].h], sib)]
    /\ sib' = SibReclaim(sib, th')
    /\ UNCHANGED <<experiences, store, rlock, mapReaders, lastOk, notRepo>>

\* TxReadGuard::release
Release(t) ==
    /\ th[t].pc = "reading"
    /\ rlock' = [rlock EXCEPT ![th[t].h].r = @ \ {t}]
    /\ th' = [th EXCEPT ![t] = Rest(t)]
    /\ UNCHANGED <<experiences, store, mapReaders, sib, lastOk, notRepo>>

\* DerefMut for the write guard: the values of profile i are set to v
Mutate(t, i, v) ==
    /\ th[t].pc = "writing"
    /\ i \in 1..Len(th[t].data.profiles)
    /\ th[t].data.profiles[i].values # v
    /\ th' = [th EXCEPT ![t].data.profiles[i].values = v]
    /\ UNCHANGED <<experiences, store, rlock, mapReaders, sib, lastOk, notRepo>>

\* DerefMut for the write guard: the subject of the aggregate is replaced by
\* another entity (Entity::with_id)
AssignEntity(t, e) ==
    /\ th[t].pc = "writing"
    /\ th[t].data.entity.id # e
    /\ th' = [th EXCEPT ![t].data.entity = DefaultWithId(e)]
    /\ UNCHANGED <<experiences, store, rlock, mapReaders, sib, lastOk, notRepo>>

\* DerefMut for the write guard: the event of the aggregate is replaced
AssignEvent(t, v) ==
    /\ th[t].pc = "writing"
    /\ th[t].data.event.id # v
    /\ th' = [th EXCEPT ![t].data.event = DefaultWithId(v)]
    /\ UNCHANGED <<experiences, store, rlock, mapReaders, sib, lastOk, notRepo>>

\* the write guard goes out of scope with neither commit() nor rollback()
\* called on it (no Drop is implemented for it, its fields are dropped): the
\* record's lock is released and the in-guard aggregate is lost
DropGuard(t) ==
    /\ th[t].pc = "writing"
    /\ rlock' = [rlock EXCEPT ![th[t].h].w = 0]
    /\ th' = [th EXCEPT ![t] = [Rest(t) EXCEPT !.pc = "returned",
                                   !.op = "write", !.res = "Dropped"]]
    /\ UNCHANGED <<experiences, store, mapReaders, sib, lastOk, notRepo>>

\* a panic of the holder of a write guard: the guard is dropped while
\* unwinding without a commit, which poisons the record's lock
PanicWriting(t) ==
    /\ th[t].pc = "writing"
    /\ rlock' = [rlock EXCEPT ![th[t].h].w = 0]
    /\ poisoned' = [poisoned EXCEPT !.res = @ \cup {th[t].h}]
    /\ th' = [th EXCEPT ![t] = [Rest(t) EXCEPT !.pc = "returned",
                                   !.op = "write", !.res = "Panicked"]]
    /\ UNCHANGED <<experiences, store, mapReaders, sib, lastOk,
                   insVars, chainVars>>

\* variant: commit drops the guard without storing anything
CommitDiscarding(t) ==
    /\ th[t].pc = "writing"
    /\ rlock' = [rlock EXCEPT ![th[t].h].w = 0]
    /\ th' = [th EXCEPT ![t] = Rest(t)]
    /\ UNCHANGED <<experiences, store, mapReaders, sib, lastOk, notRepo>>

\* TxWriteGuard::commit
Commit(t) ==
    /\ th[t].pc = "writing"
    /\ store' = [store EXCEPT ![th[t].h] = RawExperienceFrom(th[t].data)]
    /\ rlock' = [rlock EXCEPT ![th[t].h].w = 0]
    /\ th' = [th EXCEPT ![t] = Rest(t)]
    /\ UNCHANGED <<experiences, mapReaders, sib, lastOk, notRepo>>

\* TxWriteGuard::rollback
Rollback(t) ==
    /\ th[t].pc = "writing"
    /\ rlock' = [rlock EXCEPT ![th[t].h].w = 0]
    /\ th' = [th EXCEPT ![t] = Rest(t)]
    /\ UNCHANGED <<experiences, store, mapReaders, sib, lastOk, notRepo>>

\* the sequences listing the elements of S once each, in any order
RECURSIVE Orders(_)
Orders(S) ==
    IF S = {} THEN {<<>>}
    ELSE UNION {{<<x>> \o o : o \in Orders(S \ {x})} : x \in S}

\* InMemoryExperienceRepository::filter, self.experiences.read() and
\* .values(): the map's iteration order is any; the PoisonError of the map's
\* lock is returned through map_err(Error::from)?
FilterBegin(t, q, order) ==
    /\ th[t].pc = "idle"
    /\ order \in Orders(DOMAIN experiences)
    /\ IF poisoned.map
       THEN /\ th' = [th EXCEPT ![t] = [Rest(t) EXCEPT
                        !.pc = "returned", !.op = "filter", !.q = q,
                        !.res = "Poisoned"]]
            /\ UNCHANGED mapReaders
       ELSE /\ mapReaders' = mapReaders \cup {t}
            /\ th' = [th EXCEPT ![t] = [Rest(t) EXCEPT
                        !.pc = "filter", !.op = "filter", !.q = q,
                        !.fq = order]]
    /\ UNCHANGED <<experiences, store, rlock, sib, lastOk, notRepo>>

\* filter: filter.matches(&entity.clone().read()) on the next record, whose
\* lock is taken shared for the comparison; a match is cloned into the result
FilterVisit(t) ==
    /\ th[t].pc = "filter"
    /\ th[t].fq # <<>>
    /\ LET r == experiences[Head(th[t].fq)] IN
       /\ CanRead(rlock[r])
       /\ th' = [th EXCEPT
               ![t].fq = Tail(th[t].fq),
               ![t].found = IF ExperienceFilterMatches(th[t].q, store[r])
                            THEN th[t].found \cup {r} ELSE th[t].found]
    /\ UNCHANGED <<experiences, store, rlock, mapReaders, sib, lastOk, notRepo>>

\* filter: collect() ends, the map's read guard is dropped
FilterEnd(t) ==
    /\ th[t].pc = "filter"
    /\ th[t].fq = <<>>
    /\ mapReaders' = mapReaders \ {t}
    /\ th' = [th EXCEPT ![t].pc = "returned", ![t].res = "Ok"]
    /\ UNCHANGED <<experiences, store, rlock, sib, lastOk, notRepo>>

\* EntityRepository::create / EventRepository::create
SibCreate(t, repo, id) ==
    /\ th[t].pc = "idle"
    /\ sib[repo][id].st = "absent"
    /\ ~SibHeld(th, repo, id)
    /\ sib' = [sib EXCEPT ![repo][id] = [st |-> "live", name |-> 1, w |-> 0]]
    /\ UNCHANGED <<experiences, store, rlock, mapReaders, th, lastOk, notRepo>>

\* EntityRepository::delete / EventRepository::delete
SibDelete(t, repo, id) ==
    /\ th[t].pc = "idle"
    /\ sib[repo][id].st = "live"
    /\ sib' = SibReclaim([sib EXCEPT ![repo][id].st = "absent"], th)
    /\ UNCHANGED <<experiences, store, rlock, mapReaders, th, lastOk, notRepo>>

\* find(id) and write() on an entity or an event: its lock is held exclusive
SibWrite(t, repo, id) ==
    /\ th[t].pc = "idle"
    /\ sib[repo][id].st = "live"
    /\ sib[repo][id].w = 0
    /\ \A u \in Threads : <<repo, id>> \notin th[u].held
    /\ sib' = [sib EXCEPT ![repo][id].w = t]
    /\ th' = [th EXCEPT ![t] = [Rest(t) EXCEPT !.pc = "sibwriting",
                                   !.op = "sibwrite", !.sh = <<repo, id>>]]
    /\ UNCHANGED <<experiences, store, rlock, mapReaders, lastOk, notRepo>>

\* commit() of the entity's or event's write guard with a new name
SibCommit(t, name) ==
    /\ th[t].pc = "sibwriting"
    /\ th' = [th EXCEPT ![t] = Rest(t)]
    /\ sib' = SibReclaim([sib EXCEPT ![th[t].sh[1]][th[t].sh[2]].name = name,
                                    ![th[t].sh[1]][th[t].sh[2]].w = 0], th')
    /\ UNCHANGED <<experiences, store, rlock, mapReaders, lastOk, notRepo>>

\* an Experience as handed to create: the entities and the event carry only
\* their identifiers, every profile has the values 0
Experience(id, entity, event, profileEntities) ==
    [id |-> id, entity |-> DefaultWithId(entity), event |-> DefaultWithId(event),
     profiles |-> [i \in 1..Len(profileEntities) |->
                     [entity |-> DefaultWithId(profileEntities[i]), values |-> 0]]]

\* the experiences created: profiles out of order and repeated, the subject
\* among the profiles, no profile
Experiences ==
    UNION {{Experience(id, 2, 1, <<3, 1, 3>>), Experience(id, 3, 1, <<1>>),
            Experience(id, 1, 2, <<>>), Experience(id, 2, 2, <<1, 2>>)} :
           id \in ExpIds}
\* the experiences composed: two for one identifier, one for the other
AggExperiences ==
    {Experience(1, 2, 1, <<3, 1, 3>>), Experience(1, 3, 1, <<1>>),
     Experience(2, 1, 2, <<>>)}
\* filters: each field unpopulated (0) or an identifier
Filters == [id : {0} \cup ExpIds, entity : {0} \cup EntIds, event : {0} \cup EvIds]
\* the names an entity or event is renamed to
Names == {2}
\* the entities and events that get renamed, and those that get deleted
Renamed(repo) == {1}
Deleted(repo) == {1}

\* create and delete calls on the experience repository
MapStep(t, xs, ids) ==
    \/ \E x \in xs : CallCreate(t, x)
    \/ DoCreate(t)
    \/ \E id \in ids : CallDelete(t, id)
    \/ DoDelete(t)

\* find calls, and the caller taking what a call returned
FindStep(t, ids) ==
    \/ \E id \in ids : Find(t, id)
    \/ Return(t)

\* a call of filter
FilterStep(t, qs) ==
    \/ \E q \in qs, o \in Orders(DOMAIN experiences) : FilterBegin(t, q, o)
    \/ FilterVisit(t)
    \/ FilterEnd(t)

\* a read guard taken from the handle and released
ReadStep(t) ==
    \/ TxRead(t)
    \/ Release(t)

\* a write guard taken from the handle and committed or rolled back
WriteStep(t) ==
    \/ TxWrite(t)
    \/ Commit(t)
    \/ Rollback(t)

\* a write guard on an entity or event, committed with a new name
RenameStep(t, repo, ids) ==
    \/ \E id \in ids : SibWrite(t, repo, id)
    \/ \E name \in Names : SibCommit(t, name)

\* entities and events created and deleted
SibStep(t) ==
    \/ \E repo \in Repos : \E id \in Deleted(repo) : SibCreate(t, repo, id)
    \/ \E repo \in Repos : \E id \in Deleted(repo) : SibDelete(t, repo, id)

\* one caller of the map and of filter: every experience, every filter
RepoNext ==
    \/ MapStep(1, Experiences, ExpIds)
    \/ FindStep(1, ExpIds)
    \/ DropHandle(1)
    \/ FilterStep(1, Filters)

\* one caller composing aggregates while entities and events change
AggNext ==
    \/ MapStep(1, AggExperiences, ExpIds)
    \/ FindStep(1, ExpIds)
    \/ DropHandle(1)
    \/ ReadStep(1)
    \/ WriteStep(1)
    \/ ResolveRead(1)
    \/ \E i \in {1, 2}, v \in {0, 1} : Mutate(1, i, v)
    \/ SibStep(1)
    \/ \E repo \in Repos : RenameStep(1, repo, Renamed(repo))

\* the experiences of concurrent callers: two referencing entities 1 and 2
\* and event 1, one referencing entity 3 and event 2
TxExperiences ==
    {Experience(1, 2, 1, <<1>>), Experience(2, 1, 1, <<2>>),
     Experience(2, 3, 2, <<>>)}

\* concurrent callers, each in one operation at a time: thread 1 writes
\* experience 1; thread 2 reads and writes either experience and renames
\* entity 1; thread 3 creates the experiences, deletes experience 2 and
\* filters
TxNext ==
    \/ FindStep(1, {1})
    \/ WriteStep(1)
    \/ ResolveRead(1)
    \/ Mutate(1, 1, 1)
    \/ FindStep(2, ExpIds)
    \/ ReadStep(2)
    \/ WriteStep(2)
    \/ ResolveRead(2)
    \/ RenameStep(2, "entity", {1})
    \/ MapStep(3, TxExperiences, {2})
    \/ FilterStep(3, {NoFilter})
    \/ Return(3)

\* two callers taking read and write guards on the one experience that a
\* third creates and deletes
GuardNext ==
    \/ \E t \in {1, 2} :
          \/ FindStep(t, {1})
          \/ ReadStep(t)
          \/ WriteStep(t)
          \/ ResolveRead(t)
          \/ Mutate(t, 1, 1)
    \/ MapStep(3, {Experience(1, 2, 1, <<1>>)}, {1})
    \/ Return(3)

\* the experiences whose fields a writer assigns: one per identifier
MutExperiences == {Experience(1, 2, 1, <<1>>), Experience(2, 3, 2, <<>>)}

\* one caller writing through the guard whatever DerefMut lets it write
MutNext ==
    \/ MapStep(1, MutExperiences, ExpIds)
    \/ FindStep(1, ExpIds)
    \/ WriteStep(1)
    \/ ResolveRead(1)
    \/ \E i \in {1}, v \in {0, 1} : Mutate(1, i, v)
    \/ \E e \in EntIds : AssignEntity(1, e)
    \/ \E v \in EvIds : AssignEvent(1, v)

\* one Insert and one caller of the repository, with panics under the
\* graph's, the map's and a record's write guard
PoisonNext ==
    \/ \E n \in {[id |-> 1, rev |-> 0]} : InsertNew(1, n)
    \/ ExecLock(1)
    \/ ExecInsert(1)
    \/ ExecReturn(1)
    \/ ExecPanic(1)
    \/ MapStep(1, {Experience(1, 2, 1, <<1>>)}, {1})
    \/ PanicCreate(1)
    \/ FindStep(1, {1})
    \/ FilterStep(1, {NoFilter})
    \/ ReadStep(1)
    \/ WriteStep(1)
    \/ ResolveRead(1)
    \/ PanicWriting(1)

\* a caller composing aggregates lock by lock while another one renames,
\* deletes and re-creates the entities and events they reference
ComposeExperiences ==
    {Experience(1, 2, 1, <<3, 1, 3>>), Experience(1, 1, 2, <<>>)}
ComposeNext ==
    \/ MapStep(1, ComposeExperiences, {1})
    \/ FindStep(1, {1})
    \/ ReadStep(1)
    \/ WriteStep(1)
    \/ ResolveAcquire(1)
    \/ ResolveClone(1)
    \/ SibStep(2)
    \/ \E repo \in Repos : RenameStep(2, repo, Renamed(repo))

\* two callers whose write guards end by commit(), by rollback() or at the
\* end of their scope
DropNext ==
    \/ \E t \in {1, 2} :
          \/ FindStep(t, {1})
          \/ WriteStep(t)
          \/ ResolveRead(t)
          \/ Mutate(t, 1, 1)
          \/ DropGuard(t)
    \/ MapStep(3, {Experience(1, 2, 1, <<1>>)}, {1})
    \/ Return(3)

\* no lock is poisoned
PoisonInit == poisoned = [graph |-> FALSE, map |-> FALSE, res |-> {}]

Init == InsInit /\ ChainInit /\ RepoInit /\ PoisonInit

InsStep(t) ==
    \/ \E n \in NewNodes : InsertNew(t, n)
    \/ \E c \in BTriggers : WrapperBefore(t, c)
    \/ \E c \in ATriggers : WrapperAfter(t, c)
    \/ ExecLock(t)
    \/ ExecBefore(t)
    \/ ExecInsert(t)
    \/ ExecAfter(t)
    \/ ExecReturn(t)

\* one transaction at a time on the schema
InsNext == InsStep(1)

\* two transactions run once each on the same schema: the first rekeys its
\* candidate and has after-triggers that take the graph's lock, the second
\* may be rejected by its before-trigger
ConcNext ==
    \/ \E n \in NewNodes : tx[1].pc = "none" /\ InsertNew(1, n)
    \/ WrapperBefore(1, "bRekey")
    \/ \E c \in LockingTriggers : WrapperAfter(1, c)
    \/ tx[2].pc = "none" /\ InsertNew(2, [id |-> 2, rev |-> 0])
    \/ WrapperBefore(2, "bFailA")
    \/ \E c \in {"aOk", "aRead"} : WrapperAfter(2, c)
    \/ \E t \in InsTxs :
          \/ ExecLock(t)
          \/ ExecBefore(t)
          \/ ExecInsert(t)
          \/ ExecAfter(t)
          \/ AfterAcquire(t)
          \/ AfterRelease(t)
          \/ ExecReturn(t)

SpecInsert == Init /\ [][InsNext]_vars
SpecConc == Init /\ [][ConcNext]_vars

SpecChain == Init /\ [][ChainNext]_vars

SpecRepo == Init /\ [][RepoNext]_vars

SpecAgg == Init /\ [][AggNext]_vars

SpecTx == Init /\ [][TxNext]_vars
SpecGuard == Init /\ [][GuardNext]_vars
SpecMut == Init /\ [][MutNext]_vars
SpecPoison == Init /\ [][PoisonNext]_vars
SpecDrop == Init /\ [][DropNext]_vars
SpecCompose == Init /\ [][ComposeNext]_vars

(***************************************************************************)
(* Properties of the Insert transaction                                    *)
(***************************************************************************)
Reverse(s) == [i \in 1..Len(s) |-> s[Len(s) + 1 - i]]
IsPrefix(p, s) == Len(p) <= Len(s) /\ SubSeq(s, 1, Len(p)) = p
AnyFails(s) == \E i \in 1..Len(s) : Fails(s[i])
\* the failing command attached last: the first to fail in last-in-first-out order
LastAttachedFailing(s) ==
    s[CHOOSE i \in 1..Len(s) : Fails(s[i]) /\ \A j \in (i+1)..Len(s) : ~Fails(s[j])]

\* C1: when a before-trigger fails, the graph at the end of execute is the
\* graph found at its start, execute returns that trigger's error, nothing was
\* inserted and no after-trigger ran.
C1_BeforeFailureAborts ==
    \A t \in InsTxs :
        (tx[t].pc = "done" /\ AnyFails(tx[t].attB)) =>
            /\ tx[t].post = tx[t].pre
            /\ graph = tx[t].pre
            /\ tx[t].res = LastAttachedFailing(tx[t].attB)
            /\ tx[t].id = 0
            /\ tx[t].logA = <<>>

C1_Witness ==
    /\ tx[1].pc = "done"
    /\ tx[1].attB = <<"bFailA", "bRekey", "bFailB">> \/ tx[1].attB = <<"bFailA", "bFailB">>
    /\ tx[1].attA # <<>>
    /\ tx[1].res = "bFailB"
    /\ DOMAIN tx[1].pre # {}

\* C2: when the before-triggers pass and an after-trigger fails, the inserted
\* node is in the graph when execute returns, and execute returns that
\* after-trigger's error.
C2_AfterFailureKeepsNode ==
    \A t \in InsTxs :
        (tx[t].pc = "done" /\ ~AnyFails(tx[t].attB) /\ AnyFails(tx[t].attA)) =>
            /\ tx[t].id = tx[t].cell.id
            /\ tx[t].id \in DOMAIN graph
            /\ graph[tx[t].id] = tx[t].cell
            /\ tx[t].res = LastAttachedFailing(tx[t].attA)

C2_Witness ==
    /\ tx[1].pc = "done"
    /\ tx[1].attB # <<>>
    /\ ~AnyFails(tx[1].attB)
    /\ tx[1].attA = <<"aFailA", "aFailB">>
    /\ tx[1].res = "aFailB"
    /\ tx[1].id \notin DOMAIN tx[1].pre
    /\ tx[1].id \in DOMAIN graph

Inserted(t) == tx[t].pc \in {"after", "done"} /\ ~AnyFails(tx[t].attB)

\* C3 as stated: every Insert whose before-triggers pass leaves the graph with
\* exactly one more node, stored under the node's own identifier.
C3_Original ==
    \A t \in InsTxs :
        Inserted(t) =>
            /\ Cardinality(DOMAIN tx[t].post) = Cardinality(DOMAIN tx[t].pre) + 1
            /\ tx[t].post[tx[t].cell.id] = tx[t].cell

\* C3 amended: every Insert whose before-triggers pass and whose node's
\* identifier is not yet in the graph leaves the graph with exactly one more
\* node, stored under the node's own identifier, the other nodes untouched.
C3_FreshInsertAddsOne ==
    \A t \in InsTxs :
        (Inserted(t) /\ tx[t].cell.id \notin DOMAIN tx[t].pre) =>
            /\ Cardinality(DOMAIN tx[t].post) = Cardinality(DOMAIN tx[t].pre) + 1
            /\ DOMAIN tx[t].post = DOMAIN tx[t].pre \cup {tx[t].cell.id}
            /\ tx[t].post[tx[t].cell.id] = tx[t].cell
            /\ \A k \in DOMAIN tx[t].pre : tx[t].post[k] = tx[t].pre[k]

C3_Witness ==
    /\ Inserted(1)
    /\ "bRekey" \in {tx[1].attB[i] : i \in 1..Len(tx[1].attB)}
    /\ DOMAIN tx[1].pre # {}
    /\ tx[1].cell.id \notin DOMAIN tx[1].pre
    /\ tx[1].cell.id \in DOMAIN tx[1].post

\* the chain built by attaching the commands of s one after the other
RECURSIVE ChainOf(_)
ChainOf(s) ==
    IF s = <<>> THEN NoopCommand
    ELSE LiFoChain(ChainOf(SubSeq(s, 1, Len(s) - 1)), s[Len(s)])

\* C4: triggers run last-in-first-out on each side, and attaching on one side
\* leaves the other side's chain as it was: each chain holds exactly the
\* commands attached to its side, and the commands executed so far are the
\* attached ones in reverse order of attachment.
C4_TriggersRunLifo ==
    \A t \in InsTxs :
        /\ tx[t].pc = "built" =>
              /\ tx[t].before = ChainOf(tx[t].attB)
              /\ tx[t].after = ChainOf(tx[t].attA)
        /\ IsPrefix(tx[t].logB, Reverse(tx[t].attB))
        /\ IsPrefix(tx[t].logA, Reverse(tx[t].attA))
        /\ (tx[t].pc = "after" \/ (tx[t].pc = "done" /\ ~AnyFails(tx[t].attB))) =>
              tx[t].logB = Reverse(tx[t].attB)
        /\ (tx[t].pc = "done" /\ tx[t].res = "Ok") =>
              tx[t].logA = Reverse(tx[t].attA)
        /\ (tx[t].pc = "done" /\ tx[t].res # "Ok") =>
              \/ tx[t].logB # <<>> /\ tx[t].res = tx[t].logB[Len(tx[t].logB)]
                                  /\ tx[t].logA = <<>>
              \/ tx[t].logA # <<>> /\ tx[t].res = tx[t].logA[Len(tx[t].logA)]

C4_Witness ==
    /\ tx[1].pc = "done"
    /\ tx[1].attB = <<"bOk", "bRekey">>
    /\ tx[1].logB = <<"bRekey", "bOk">>
    /\ tx[1].attA = <<"aFailA", "aOk">>
    /\ tx[1].logA = <<"aOk", "aFailA">>

(***************************************************************************)
(* Properties of the constraint chain                                      *)
(***************************************************************************)
\* the members of a chain by rank of attachment (1: the oldest)
RECURSIVE MembersOf(_)
MembersOf(o) ==
    IF o = None THEN <<>>
    ELSE Append(MembersOf(Unwrap(o).head), Unwrap(o).constraint)

\* the ranks n, n-1, .., k
Down(n, k) == [i \in 1..(n - k + 1) |-> n + 1 - i]

WithFails(m, u) == ~MemberWith(m, u).ok
ResultFails(m) == ~MemberResult(m).ok

\* C5: `with` feeds the unit to the newest member first and then to the
\* older ones in reverse order of attachment, stops at the first member whose
\* `with` fails and returns that member's error; it fails if and only if some
\* member's `with` fails on the unit; on success every member took the unit.
C5_WithNewestFirstShortCircuits ==
    clast.op = "with" =>
        LET ms == MembersOf(clast.pre)
            n == Len(ms)
            bad == {i \in 1..n : WithFails(ms[i], clast.unit)}
        IN  /\ clast.ok <=> bad = {}
            /\ bad = {} =>
                  /\ clast.log = Down(n, 1)
                  /\ chain # Moved
                  /\ Len(MembersOf(chain)) = n
                  /\ \A i \in 1..n :
                        MembersOf(chain)[i] = MemberWith(ms[i], clast.unit).val
            /\ bad # {} =>
                  LET f == CHOOSE i \in bad : \A j \in bad : j <= i IN
                  /\ clast.err = ms[f].name
                  /\ clast.log = Down(n, f)
                  /\ chain = Moved

C5_Witness ==
    /\ clast.op = "with"
    /\ ~clast.ok
    /\ Len(MembersOf(clast.pre)) = 3
    /\ clast.err = 2
    /\ clast.log = <<3, 2>>
    /\ WithFails(MembersOf(clast.pre)[1], clast.unit)

\* C6: `result` asks the newest member first, returns the error of the first
\* failing member in that order, asks no member older than that one, and
\* returns Ok only if every member's result is Ok.
C6_ResultNewestFirst ==
    clast.op = "result" =>
        LET ms == MembersOf(clast.pre)
            n == Len(ms)
            bad == {i \in 1..n : ResultFails(ms[i])}
        IN  /\ clast.ok <=> bad = {}
            /\ bad = {} => clast.log = Down(n, 1)
            /\ bad # {} =>
                  LET f == CHOOSE i \in bad : \A j \in bad : j <= i IN
                  /\ clast.err = ms[f].name
                  /\ clast.log = Down(n, f)

C6_Witness ==
    /\ clast.op = "result"
    /\ ~clast.ok
    /\ Len(MembersOf(clast.pre)) = 3
    /\ clast.err = 2
    /\ clast.log = <<3, 2>>
    /\ ResultFails(MembersOf(clast.pre)[1])
    /\ MembersOf(clast.pre)[3].seen # {}

\* the record stored under an identifier of the map
Stored(m, s, id) == s[m[id]]

\* C7: create(record) returns AlreadyExists exactly when a record with the
\* same identifier is already stored, and then the stored record and every
\* other entry of the map are unchanged; otherwise it stores the record under
\* its identifier, leaves every other entry as it was, and returns Ok.
C7_CreateContract ==
    [][\A t \in Threads :
        (th[t].pc = "create" /\ th'[t].pc = "returned") =>
            LET x == th[t].x IN
            /\ \A id \in DOMAIN experiences :
                  /\ id \in DOMAIN experiences'
                  /\ id # x.id =>
                        Stored(experiences', store', id)
                            = Stored(experiences, store, id)
            /\ IF x.id \in DOMAIN experiences
               THEN /\ th'[t].res = "AlreadyExists"
                    /\ DOMAIN experiences' = DOMAIN experiences
                    /\ Stored(experiences', store', x.id)
                           = Stored(experiences, store, x.id)
               ELSE /\ th'[t].res = "Ok"
                    /\ DOMAIN experiences' = DOMAIN experiences \cup {x.id}
                    /\ Stored(experiences', store', x.id) = RawExperienceFrom(x)
    ]_vars

C7_Witness ==
    /\ th[1].pc = "returned"
    /\ th[1].op = "create"
    /\ th[1].res = "AlreadyExists"
    /\ DOMAIN experiences = ExpIds
    /\ Stored(experiences, store, th[1].id)
           = RawExperienceFrom(Experience(th[1].id, 2, 1, <<3, 1, 3>>))

\* what the last call of a caller returned, against the history of the
\* identifier it was about
CallAgreesWithHistory(t) ==
    LET c == th[t] IN
    /\ (c.op = "find" /\ c.pc = "returned") =>
          c.res = "NotFound" /\ lastOk[c.id] # "create"
    /\ (c.op = "delete" /\ c.pc = "returned") =>
          /\ c.res \in {"Ok", "NotFound"}
          /\ c.res = "NotFound" => lastOk[c.id] # "create"
          /\ c.id \notin DOMAIN experiences
    /\ (c.op = "create" /\ c.pc = "returned") =>
          /\ c.res \in {"Ok", "AlreadyExists"}
          /\ lastOk[c.id] = "create"
          /\ c.id \in DOMAIN experiences

\* a find leaves the caller with a new handle only on the resource of an
\* identifier created last; a failed call, and any find, leaves the map and
\* its records as they were; delete succeeds on an identifier created last
\* and create on any other
CallStep(t) ==
    /\ (th[t].pc = "idle" /\ th'[t].pc = "idle" /\ th'[t].h \notin {0, th[t].h}) =>
          \E id \in ExpIds :
              /\ lastOk[id] = "create"
              /\ id \in DOMAIN experiences
              /\ experiences[id] = th'[t].h
    /\ (/\ th[t].pc = "idle"
        /\ th'[t] # th[t]
        /\ th'[t].pc = "idle" \/ th'[t].op = "find") =>
          /\ experiences' = experiences
          /\ \A id \in DOMAIN experiences :
                Stored(experiences', store', id) = Stored(experiences, store, id)
    /\ (th[t].pc \in {"create", "delete"} /\ th'[t].pc = "returned") =>
          /\ th'[t].res = "Ok" <=>
                IF th[t].pc = "create" THEN lastOk[th[t].id] # "create"
                ELSE lastOk[th[t].id] = "create"
          /\ th'[t].res # "Ok" =>
                /\ experiences' = experiences
                /\ \A id \in DOMAIN experiences :
                      Stored(experiences', store', id)
                          = Stored(experiences, store, id)

\* C8: after any sequence of create and delete calls, find(id) succeeds if
\* and only if the last successful operation on id was a create: delete and
\* find of an absent identifier fail with NotFound and leave the map
\* unchanged, a second create fails with AlreadyExists, and create after a
\* successful delete succeeds.
C8_FindIffLastCreate ==
    /\ [](\A t \in Threads : CallAgreesWithHistory(t))
    /\ [](\A id \in ExpIds : id \in DOMAIN experiences <=> lastOk[id] = "create")
    /\ [][\A t \in Threads : CallStep(t)]_vars

\* the record was created, found, deleted and created again: the handle
\* found first keeps the deleted resource, the map holds a new one
C8_Witness ==
    /\ th[1].pc = "returned"
    /\ th[1].op = "create"
    /\ th[1].res = "Ok"
    /\ th[1].id = 1
    /\ DOMAIN experiences = {1}
    /\ th[1].h # 0
    /\ th[1].h # experiences[1]

\* the identifiers of the lookups of one repository, in lookup order
RECURSIVE LookedUp(_, _)
LookedUp(acq, repo) ==
    IF acq = <<>> THEN <<>>
    ELSE IF Head(acq).repo = repo
         THEN <<Head(acq).id>> \o LookedUp(Tail(acq), repo)
         ELSE LookedUp(Tail(acq), repo)

\* the entities a raw record references
ReferencedEntities(raw) ==
    {raw.entity} \cup {raw.profiles[i].entity : i \in 1..Len(raw.profiles)}

\* C9: when an aggregate is composed by read() or write(), the entities it
\* references (the subject and every profile's entity) are acquired in
\* strictly ascending identifier order, each identifier at most once,
\* whatever their order and multiplicity in the raw record, and the event is
\* acquired only after all the entities.
C9_EntitiesAscendingThenEvent ==
    \A t \in Threads :
        th[t].pc \in {"resolve", "reading", "writing"} =>
            LET raw == store[th[t].h]
                acq == th[t].acq
                es == LookedUp(acq, "entity")
                evs == LookedUp(acq, "event")
            IN  /\ \A i, j \in 1..Len(es) : i < j => es[i] < es[j]
                /\ {es[i] : i \in 1..Len(es)} \subseteq ReferencedEntities(raw)
                /\ \A i \in 1..Len(acq) :
                      acq[i].repo = "event" =>
                          /\ i = Len(acq)
                          /\ acq[i].id = raw.event
                          /\ {es[k] : k \in 1..Len(es)} = ReferencedEntities(raw)
                /\ th[t].pc \in {"reading", "writing"} => Len(evs) = 1

C9_Witness ==
    /\ th[1].pc = "writing"
    /\ store[th[1].h].entity = 2
    /\ [i \in 1..Len(store[th[1].h].profiles) |->
           store[th[1].h].profiles[i].entity] = <<3, 1, 3>>
    /\ LookedUp(th[1].acq, "entity") = <<1, 2, 3>>
    /\ Len(th[1].acq) = 4
    /\ th[1].acq[4].repo = "event"
    /\ \A i \in 1..4 : th[1].acq[i].got

\* a thread inside an operation, and the steps that take it further
Unfinished(t) == th[t].pc # "idle"
Proceed(t) ==
    \/ DoCreate(t)
    \/ DoDelete(t)
    \/ Return(t)
    \/ ResolveRead(t)
    \/ Release(t)
    \/ Commit(t)
    \/ Rollback(t)
    \/ FilterVisit(t)
    \/ FilterEnd(t)
    \/ \E name \in Names : SibCommit(t, name)

\* C10: concurrent writers never deadlock: with threads taking write guards
\* on aggregates, mutating and committing or rolling back, interleaved with
\* readers and with find, filter, create and delete calls, no reachable state
\* has every unfinished thread blocked.
C10_NoDeadlock ==
    (\E t \in Threads : Unfinished(t)) =>
        \E t \in Threads : Unfinished(t) /\ ENABLED Proceed(t)

\* a filter waits for a record held by a writer, which waits for an entity
\* held by its writer
C10_Witness ==
    /\ th[1].pc = "resolve"
    /\ th[1].op = "write"
    /\ th[1].cur = <<"entity", 1>>
    /\ sib["entity"][1].w = 2
    /\ th[2].pc = "sibwriting"
    /\ th[3].pc = "filter"
    /\ th[3].fq # <<>>
    /\ rlock[experiences[Head(th[3].fq)]].w = 1
    /\ ~ENABLED Proceed(1)
    /\ ~ENABLED Proceed(3)

\* the threads holding a read guard, and those holding a write guard, on the
\* resource of slot r
ReadGuards(r) ==
    {t \in Threads : th[t].h = r /\ th[t].op = "read"
                     /\ th[t].pc \in {"resolve", "reading"}}
WriteGuards(r) ==
    {t \in Threads : th[t].h = r /\ th[t].op = "write"
                     /\ th[t].pc \in {"resolve", "writing"}}

\* C11: in every reachable state each experience record has no guard, or any
\* number of read guards and no write guard, or exactly one write guard and
\* no read guard: two write guards, or a write guard together with a read
\* guard, never coexist on a record.
C11_SharedOrExclusive ==
    \A r \in ResIds :
        /\ Cardinality(WriteGuards(r)) <= 1
        /\ WriteGuards(r) # {} => ReadGuards(r) = {}

\* two read guards on the stored record at once
C11_Witness ==
    /\ 1 \in DOMAIN experiences
    /\ ReadGuards(experiences[1]) = {1, 2}
    /\ th[1].pc = "reading"
    /\ th[2].pc = "reading"

\* a default value carrying only the identifier
Placeholder(id) == [id |-> id, name |-> 0]

\* the lookups of a guard's acquisition that found nothing
Missed(t, repo) ==
    {th[t].acq[i].id : i \in {k \in 1..Len(th[t].acq) :
                                 /\ th[t].acq[k].repo = repo
                                 /\ ~th[t].acq[k].got}}

\* C12: an unresolved reference never fails a read: when an entity or event
\* referenced by a stored experience is absent from its repository, read()
\* and write() still return their guard (a miss never halts the
\* acquisition), and the aggregate carries in place of the missing record a
\* default value whose identifier is the referenced one.
C12_MissingReferenceGivesPlaceholder ==
    \A t \in Threads :
        /\ th[t].pc \in {"reading", "writing"} =>
              LET raw == store[th[t].h]
                  data == th[t].data
              IN  /\ raw.event \in Missed(t, "event") =>
                        data.event = Placeholder(raw.event)
                  /\ raw.entity \in Missed(t, "entity") =>
                        data.entity = Placeholder(raw.entity)
                  /\ Len(data.profiles) = Len(raw.profiles)
                  /\ \A i \in 1..Len(raw.profiles) :
                        raw.profiles[i].entity \in Missed(t, "entity") =>
                            data.profiles[i].entity
                                = Placeholder(raw.profiles[i].entity)
        /\ ~(th[t].pc = "resolve" /\ th[t].cur = <<>>)

\* the subject and the event were found, the entity of the profile was not
C12_Witness ==
    /\ th[1].pc = "reading"
    /\ store[th[1].h].entity = 3
    /\ Missed(1, "entity") = {1}
    /\ Missed(1, "event") = {}
    /\ th[1].data.entity.name # 0
    /\ th[1].data.profiles[1].entity = Placeholder(1)

\* the value an entity or event repository holds for an identifier now: the
\* last committed one, or nothing but the identifier
Current(repo, id) ==
    IF sib[repo][id].st = "live"
    THEN [id |-> id, name |-> sib[repo][id].name]
    ELSE Placeholder(id)

\* C13: every read() or write() hydrates the entity and event fields from
\* the values the entity and event repositories hold at the time of the
\* acquisition: after committed updates to an entity or event made since the
\* experience was created, a new guard carries the latest committed values.
C13_HydratedFromCurrentValues ==
    \A t \in Threads :
        th[t].pc \in {"reading", "writing"} =>
            LET raw == store[th[t].h]
                data == th[t].data
            IN  /\ data.id = raw.id
                /\ data.entity = Current("entity", raw.entity)
                /\ data.event = Current("event", raw.event)
                /\ Len(data.profiles) = Len(raw.profiles)
                /\ \A i \in 1..Len(raw.profiles) :
                      data.profiles[i].entity
                          = Current("entity", raw.profiles[i].entity)

\* the entity of a profile and the event were renamed after the experience
\* was created
C13_Witness ==
    /\ th[1].pc = "reading"
    /\ store[th[1].h].entity = 3
    /\ store[th[1].h].profiles # <<>>
    /\ th[1].data.profiles[1].entity = [id |-> 1, name |-> 2]
    /\ th[1].data.event = [id |-> 1, name |-> 2]
    /\ th[1].data.entity = [id |-> 3, name |-> 1]

\* the resources some handle or the map holds for the identifier
ResourcesOf(id) ==
    {r \in ResIds \cap Referenced(experiences, th) : store[r].id = id}

\* what rollback() and the steps of other threads leave of a record under a
\* write guard
GuardKeepsRecord(t) ==
    /\ (WriteGuards(th[t].h) = {t} /\ ~Commit(t)) =>
          store'[th[t].h] = store[th[t].h]
    /\ Rollback(t) => store' = store

\* C14 as stated: commit() overwrites the stored raw record with the
\* projection of the in-guard aggregate so that every later read through any
\* handle for that identifier observes it; rollback() leaves the stored
\* record as it was when the guard was acquired.
C14_Original ==
    [][\A t \in Threads :
        /\ Commit(t) =>
              /\ store[th[t].h].id \in DOMAIN experiences'
              /\ \A r \in ResourcesOf(store[th[t].h].id) :
                    store'[r] = RawExperienceFrom(th[t].data)
        /\ GuardKeepsRecord(t)
    ]_vars

\* C14: commit() overwrites the raw record of the guard's resource with the
\* projection of the (mutated) in-guard aggregate and touches no other, so
\* every later read through a handle on that resource (the map's, while the
\* identifier is stored under it) observes the mutation; rollback() leaves
\* the record exactly as it was when the guard was acquired, whatever was
\* mutated through the guard.
C14_CommitStoresRollbackKeeps ==
    [][\A t \in Threads :
        /\ Commit(t) =>
              LET h == th[t].h
                  id == store[h].id
              IN  /\ store'[h] = RawExperienceFrom(th[t].data)
                  /\ \A r \in ResIds \ {h} : store'[r] = store[r]
                  /\ \A u \in Threads : th'[u].h = th[u].h
                  /\ (id \in DOMAIN experiences /\ experiences[id] = h) =>
                        Stored(experiences', store', id)
                            = RawExperienceFrom(th[t].data)
        /\ GuardKeepsRecord(t)
    ]_vars

\* a reader on another handle sees the values a writer committed
C14_Witness ==
    /\ 1 \in DOMAIN experiences
    /\ Stored(experiences, store, 1).profiles[1].values = 1
    /\ th[2].pc = "reading"
    /\ th[2].h = experiences[1]
    /\ th[2].data.profiles[1].values = 1
    /\ th[1].h = experiences[1]
    /\ th[1].pc = "idle"

\* C15: in every reachable state a stored experience record's identifier,
\* owning-entity identifier and event identifier equal the values it had at
\* creation: after any write guards, mutations and commits or rollbacks only
\* the profile and value fields of the stored record can differ.
C15_ReferencesImmutable ==
    \A id \in DOMAIN experiences :
        \E x \in MutExperiences :
            /\ x.id = id
            /\ Stored(experiences, store, id).id = id
            /\ Stored(experiences, store, id).entity = x.entity.id
            /\ Stored(experiences, store, id).event = x.event.id

\* C16: lock poisoning is recovered locally and never surfaces as a
\* caller-visible error: once the graph's lock, the map's lock or a record's
\* lock was poisoned by a panic, every later Insert::execute, find, filter,
\* create, delete, read and write proceeds on the last-written state and
\* returns no error caused by the poisoning.
C16_PoisonNeverSurfaces ==
    /\ \A t \in InsTxs : tx[t].res # "Poisoned"
    /\ \A t \in Threads : th[t].res # "Poisoned"

\* the populated fields of a query
Populated(q) == {f \in {"id", "entity", "event"} : q[f] # 0}
\* the resources of the stored records that agree with every populated field
Matching(q) ==
    {experiences[id] : id \in
        {i \in DOMAIN experiences :
            \A f \in Populated(q) : store[experiences[i]][f] = q[f]}}

\* C17: filter(query) returns a handle for exactly the stored records whose
\* fields equal every populated field of the query (id, entity, event); an
\* unpopulated field matches every record, so the empty query returns all
\* stored records.
C17_FilterReturnsExactlyMatching ==
    \A t \in Threads :
        th[t].pc = "returned" /\ th[t].op = "filter" /\ th[t].res = "Ok" =>
            /\ th[t].found = Matching(th[t].q)
            /\ th[t].q = NoFilter =>
                   th[t].found = {experiences[id] : id \in DOMAIN experiences}
C17_Witness ==
    \E t \in Threads :
        /\ th[t].pc = "returned" /\ th[t].op = "filter" /\ th[t].res = "Ok"
        /\ Populated(th[t].q) = {"entity", "event"}
        /\ th[t].found # {}
        /\ \E id \in DOMAIN experiences : experiences[id] \notin th[t].found

\* the orders of attachment of n constraints
AttachOrders(n) ==
    {p \in [1..n -> 1..n] : \A i, j \in 1..n : p[i] = p[j] => i = j}
\* the chain made by attaching the constraints ms, ms[1] first:
\* LiFoConstraintChain::new(ms[1]).chain(ms[2])...
RECURSIVE Attach(_)
Attach(ms) ==
    IF Len(ms) = 1 THEN LiFoConstraintChainNew(ms[1])
    ELSE LiFoConstraintChainLink(Attach(SubSeq(ms, 1, Len(ms) - 1)),
                                 ms[Len(ms)])
\* the constraints of chain o, attached in the order p
Reattached(o, p) ==
    LET ms == MembersOf(o) IN Attach([i \in 1..Len(ms) |-> ms[p[i]]])
\* the sequences of units fed to a chain
UnitSeqs == UNION {[1..n -> Units] : n \in 0..MaxFed}
\* whether the chain passes: every `with` of us in turn, then `result`, is Ok
RECURSIVE Passes(_, _)
Passes(self, us) ==
    IF us = <<>> THEN ChainResult(self).ok
    ELSE LET r == ChainWith(self, Head(us)) IN
         r.ok /\ Passes(r.val, Tail(us))

\* C18: whether a chain of independent constraints fails does not depend on
\* the order in which they were attached: for every chain as attached and
\* every sequence of units fed through `with` and then `result`, and for
\* each single `with` and `result` call made on a chain, every order of
\* attachment of the same constraints fails if and only if the chain does;
\* only the reported violation may differ.
C18_FailureIndependentOfOrder ==
    /\ chain # Moved /\ clast.op = "none" =>
          \A p \in AttachOrders(Len(MembersOf(chain))) : \A us \in UnitSeqs :
              Passes(Reattached(chain, p), us) <=> Passes(Unwrap(chain), us)
    /\ clast.op = "with" =>
          \A p \in AttachOrders(Len(MembersOf(clast.pre))) :
              ChainWith(Reattached(clast.pre, p), clast.unit).ok <=> clast.ok
    /\ clast.op = "result" =>
          \A p \in AttachOrders(Len(MembersOf(clast.pre))) :
              ChainResult(Reattached(clast.pre, p)).ok <=> clast.ok
\* a fed chain of three constraints fails, and another order of attachment
\* reports another constraint
C18_Witness ==
    /\ clast.op = "result"
    /\ ~clast.ok
    /\ Len(MembersOf(clast.pre)) = 3
    /\ \A i \in 1..3 : MembersOf(clast.pre)[i].seen # {}
    /\ \E p \in AttachOrders(3) :
          LET r == ChainResult(Reattached(clast.pre, p)) IN
          ~r.ok /\ MembersOf(clast.pre)[p[3]].name # clast.err

\* the guard of thread t holds the aggregate as hydrated, nothing mutated
Unmutated(t) ==
    th[t].data = ExperienceOf(store[th[t].h], th[t].ev, th[t].ents)

\* C19: projecting a hydrated aggregate back gives the raw record it was
\* hydrated from (same identifier, entity id, event id, and the same
\* ordered profile entity ids and values), whatever the entity and event
\* repositories hold, missing records included; so a read guard always
\* projects to the stored record, and write() followed by commit() with no
\* mutation leaves the stored record unchanged.
C19_ProjectionInvertsHydration ==
    /\ [](\A t \in Threads :
            th[t].pc \in {"reading", "writing"} =>
                /\ RawExperienceFrom(ExperienceOf(store[th[t].h], th[t].ev,
                                                  th[t].ents))
                       = store[th[t].h]
                /\ th[t].pc = "reading" =>
                       RawExperienceFrom(th[t].data) = store[th[t].h])
    /\ [][\A t \in Threads :
            /\ th[t].pc # "writing" /\ th'[t].pc = "writing" =>
                   RawExperienceFrom(th'[t].data) = store'[th'[t].h]
            /\ Commit(t) /\ Unmutated(t) => store' = store]_vars
\* a write guard on a record with three profiles, hydrated while an entity
\* and the event it references were missing, and not mutated
C19_Witness ==
    \E t \in Threads :
        /\ th[t].pc = "writing"
        /\ Unmutated(t)
        /\ Len(store[th[t].h].profiles) = 3
        /\ \E i \in 1..Len(th[t].acq) :
              th[t].acq[i].repo = "entity" /\ ~th[t].acq[i].got
        /\ \E i \in 1..Len(th[t].acq) :
              th[t].acq[i].repo = "event" /\ ~th[t].acq[i].got
        /\ \E i \in 1..Len(th[t].acq) : th[t].acq[i].got

\* C20: exactly one of commit() or rollback() is invoked per write-guard
\* lifetime: every write guard ends its life by a single commit or a single
\* rollback, never both, never twice, and never by being disposed of without
\* either.
C20_GuardEndsByCommitOrRollback ==
    [][\A t \in Threads :
          th[t].pc = "writing" /\ th'[t].pc # "writing" =>
              Commit(t) \/ Rollback(t)]_vars

(***************************************************************************)
(* Properties of the insertion under concurrency and of its candidate      *)
(***************************************************************************)
\* the candidate n after the before-triggers attached as s ran, the one
\* attached last first
RECURSIVE AsLeftBy(_, _)
AsLeftBy(s, n) ==
    IF s = <<>> THEN n
    ELSE AsLeftBy(SubSeq(s, 1, Len(s) - 1), BeforeEffect(s[Len(s)], n))

\* C21: the node Insert stores is the candidate as the before-triggers left
\* it (its identifier and content mutated in place), and the identifier
\* handed to the after-triggers is the identifier of that mutated node,
\* taken once every before-trigger has run.
C21_MutatedCandidateStored ==
    /\ [](\A t \in InsTxs :
            tx[t].pc = "after" =>
                tx[t].id = AsLeftBy(tx[t].attB, tx[t].node).id)
    /\ [][\A t \in InsTxs :
            tx[t].pc = "before" /\ tx'[t].pc = "after" =>
                LET final == AsLeftBy(tx[t].attB, tx[t].node) IN
                /\ graph' = GraphInsert(graph, final)
                /\ graph'[final.id] = final
                /\ tx'[t].id = final.id]_vars
\* an after-trigger has run on a node that a before-trigger gave another
\* identifier
C21_Witness ==
    \E t \in InsTxs :
        /\ tx[t].pc = "after"
        /\ tx[t].attB \in {<<"bRekey", "bOk">>, <<"bOk", "bRekey">>}
        /\ tx[t].logA # <<>>
        /\ tx[t].id # tx[t].node.id
        /\ tx[t].id \in DOMAIN graph
        /\ graph[tx[t].id] = [id |-> tx[t].id, rev |-> 1]
        /\ tx[t].node.id \notin DOMAIN graph

\* C22: validation and commit of an Insert are atomic with respect to the
\* other writers of the schema: the exclusive lock of the graph is held from
\* before the first before-trigger until the node is inserted, so the graph
\* the before-triggers observe is the graph the node is inserted into, and no
\* other insertion comes between them.
C22_ValidateAndCommitAtomic ==
    /\ [](\A t \in InsTxs :
            tx[t].pc = "before" => gLock = t /\ graph = tx[t].pre)
    /\ [][\A t \in InsTxs :
            /\ tx[t].pc = "before" /\ tx'[t].pc = "after" =>
                   graph' = GraphInsert(tx[t].pre, tx[t].cell)
            /\ tx[t].pc = "before" /\ graph' # graph => tx'[t].pc = "after"
            /\ tx[t].pc = "before" /\ tx'[t].pc = "before" => gLock' = t]_vars
\* a transaction whose before-trigger ran holds the lock while the other one,
\* built with its triggers, waits to enter
C22_Witness ==
    /\ tx[1].pc = "before"
    /\ tx[1].logB # <<>>
    /\ tx[2].pc = "built"
    /\ tx[2].attB # <<>>
    /\ ~ENABLED ExecLock(2)

\* the next after-trigger of t takes the graph's lock and no other
\* transaction holds it in a mode that makes t wait
FreeForAfter(t) ==
    /\ tx[t].pc = "after"
    /\ tx[t].run # NoopCommand
    /\ ChainValue(tx[t].run) \in LockingTriggers
    /\ \A u \in InsTxs \ {t} :
          /\ tx[u].pc \notin {"before", "afterW"}
          /\ ChainValue(tx[t].run) = "aWrite" => tx[u].pc # "afterR"

\* C23: the exclusive lock Insert takes on the graph is released before the
\* first after-trigger runs: while the after-triggers execute the
\* transaction holds no lock on the graph, so an after-trigger that takes
\* the lock, shared or exclusive, through InsertedNode.schema is not blocked
\* by its own transaction.
C23_LockReleasedBeforeAfter ==
    /\ [](\A t \in InsTxs :
            /\ tx[t].pc = "after" => gLock # t /\ t \notin GraphReaders
            /\ FreeForAfter(t) => ENABLED AfterAcquire(t))
    /\ [][\A t \in InsTxs :
            tx[t].pc = "before" /\ tx'[t].pc = "after" => gLock' = 0]_vars
\* an after-trigger holds the graph's lock in shared mode after another one
\* of the same transaction held it in exclusive mode
C23_Witness ==
    \E t \in InsTxs :
        /\ tx[t].pc = "afterR"
        /\ tx[t].logA = <<"aWrite">>
        /\ tx[t].id \in DOMAIN graph

\* thread t holds the lock of the raw record behind its handle, shared for
\* read() and exclusive for write()
HoldsRecord(t) ==
    IF th[t].op = "read" THEN t \in rlock[th[t].h].r
    ELSE rlock[th[t].h].w = t

\* C24: while it composes an aggregate a thread holds the lock of the raw
\* record (shared for read(), exclusive for write()) and takes the locks of
\* the entities and of the event one at a time, in shared mode, each one
\* released before the next is taken; the guard returned keeps the lock of
\* the raw record only.
C24_SiblingLocksTransient ==
    /\ [](\A t \in Threads :
            /\ Cardinality(th[t].held) <= 1
            /\ th[t].pc = "resolve" =>
                  /\ HoldsRecord(t)
                  /\ \A repo \in Repos : \A id \in SibIds(repo) :
                        sib[repo][id].w # t
            /\ th[t].pc \in {"reading", "writing"} =>
                  HoldsRecord(t) /\ th[t].held = {})
    /\ [][\A t \in Threads :
            th'[t].held # th[t].held /\ th'[t].held # {} =>
                th[t].held = {}]_vars
\* the third lock of a composition is held, the two before were released,
\* and another caller is writing the event the composition is yet to read
C24_Witness ==
    \E t \in Threads :
        /\ th[t].pc = "resolve"
        /\ Len(th[t].acq) = 2
        /\ \A i \in 1..2 : th[t].acq[i].got
        /\ th[t].held = {<<"entity", 3>>}
        /\ sib["event"][1].w \notin {0, t}

====
